---- MODULE Spec2Model ----
(***************************************************************************)
(* Two-reservoir DBO model (modelo_dbo_app.py): the derivative function    *)
(* derivadas and the fixed-step RK4 loop that fills t_list, C1_list and    *)
(* C2_list.  Python floats are IEEE-754 binary64 numbers; every arithmetic *)
(* operation of the script is modelled with its rounding (round to         *)
(* nearest, ties to even), so that t = 0.1 + 0.1 + ... is the value the    *)
(* interpreter computes and not the real number j * 0.1.                   *)
(***************************************************************************)
EXTENDS Integers, Sequences, FiniteSets, TLC

(***************************************************************************)
(* Natural numbers of any size: little-endian sequences of 15-bit limbs    *)
(* without leading zero limbs; <<>> is 0.  (TLC's own integers are 32-bit, *)
(* too narrow for a 53-bit significand and its 106-bit products.)          *)
(***************************************************************************)
Base == 2^15

Pow2 == [n \in 0..15 |-> 2^n]

Min(x, y) == IF x <= y THEN x ELSE y

Limb(a, j) == IF j <= Len(a) THEN a[j] ELSE 0

RECURSIVE BTrim(_)
BTrim(a) ==
  IF a = <<>> THEN a
  ELSE IF a[Len(a)] # 0 THEN a
  ELSE BTrim(SubSeq(a, 1, Len(a) - 1))

RECURSIVE BFromInt(_)
BFromInt(n) == IF n = 0 THEN <<>> ELSE <<n % Base>> \o BFromInt(n \div Base)

RECURSIVE BToInt(_)
BToInt(a) == IF a = <<>> THEN 0 ELSE a[1] + Base * BToInt(Tail(a))

RECURSIVE BAddC(_, _, _, _)
BAddC(a, b, j, c) ==
  IF j > Len(a) /\ j > Len(b)
  THEN (IF c = 0 THEN <<>> ELSE <<c>>)
  ELSE LET s == Limb(a, j) + Limb(b, j) + c
       IN  <<s % Base>> \o BAddC(a, b, j + 1, s \div Base)

BAdd(a, b) == BAddC(a, b, 1, 0)

\* a - b for a >= b
RECURSIVE BSubB(_, _, _, _)
BSubB(a, b, j, br) ==
  IF j > Len(a) THEN <<>>
  ELSE LET d == a[j] - Limb(b, j) - br
       IN  IF d < 0 THEN <<d + Base>> \o BSubB(a, b, j + 1, 1)
                    ELSE <<d>> \o BSubB(a, b, j + 1, 0)

BSub(a, b) == BTrim(BSubB(a, b, 1, 0))

RECURSIVE BCmpAt(_, _, _)
BCmpAt(a, b, j) ==
  IF j = 0 THEN 0
  ELSE IF a[j] < b[j] THEN -1
  ELSE IF a[j] > b[j] THEN 1
  ELSE BCmpAt(a, b, j - 1)

\* -1, 0, 1 as a < b, a = b, a > b
BCmp(a, b) ==
  IF Len(a) < Len(b) THEN -1
  ELSE IF Len(a) > Len(b) THEN 1
  ELSE BCmpAt(a, b, Len(a))

RECURSIVE BMulS(_, _, _, _)
BMulS(a, k, j, c) ==
  IF j > Len(a)
  THEN (IF c = 0 THEN <<>> ELSE <<c>>)
  ELSE LET p == a[j] * k + c
       IN  <<p % Base>> \o BMulS(a, k, j + 1, p \div Base)

\* a * k for 0 <= k <= Base
BMulSmall(a, k) == IF k = 0 THEN <<>> ELSE BMulS(a, k, 1, 0)

BShlLimbs(a, q) == IF a = <<>> \/ q = 0 THEN a ELSE [j \in 1..q |-> 0] \o a

RECURSIVE BMulAt(_, _, _)
BMulAt(a, b, j) ==
  IF j > Len(b) THEN <<>>
  ELSE BAdd(BShlLimbs(BMulSmall(a, b[j]), j - 1), BMulAt(a, b, j + 1))

BMul(a, b) == BMulAt(a, b, 1)

RECURSIVE BDivS(_, _, _, _)
BDivS(a, k, j, r) ==
  IF j = 0 THEN <<>>
  ELSE LET cur == r * Base + a[j]
       IN  BDivS(a, k, j - 1, cur % k) \o <<cur \div k>>

\* floor(a / k) for 1 <= k <= Base
BDivSmall(a, k) == BTrim(BDivS(a, k, Len(a), 0))

\* a * 2^n and floor(a / 2^n)
BShl(a, n) == BShlLimbs(BMulSmall(a, Pow2[n % 15]), n \div 15)

BShr(a, n) ==
  IF n \div 15 >= Len(a) THEN <<>>
  ELSE BDivSmall(SubSeq(a, n \div 15 + 1, Len(a)), Pow2[n % 15])

RECURSIVE IntBitLen(_)
IntBitLen(n) == IF n = 0 THEN 0 ELSE 1 + IntBitLen(n \div 2)

BBitLen(a) == IF a = <<>> THEN 0 ELSE 15 * (Len(a) - 1) + IntBitLen(a[Len(a)])

\* bit n of a (bit 0 is the lowest)
BBit(a, n) == (Limb(a, n \div 15 + 1) \div Pow2[n % 15]) % 2

\* a mod 2^n = 0
BLowZero(a, n) ==
  /\ \A j \in 1..Min(n \div 15, Len(a)) : a[j] = 0
  /\ Limb(a, n \div 15 + 1) % Pow2[n % 15] = 0

\* One step of long division by d, whose top limb (the fourth) is at least
\* Base / 2: the limb floor(r / d) for r < Base * d.  The quotient of the
\* two top limbs of r by the top limb of d is that limb or exceeds it by at
\* most 2 (Knuth, The Art of Computer Programming, 4.3.1, Theorem B).
\* qh is the estimate and p = d * qh
BDigitFix(r, d, qh, p) ==
  IF BCmp(p, r) <= 0 THEN qh
  ELSE IF BCmp(BSub(p, d), r) <= 0 THEN qh - 1
  ELSE qh - 2

BDigitEst(r, d, qh) == BDigitFix(r, d, qh, BMulSmall(d, qh))

BDigit(r, d) ==
  BDigitEst(r, d, Min((Limb(r, 5) * Base + Limb(r, 4)) \div d[4], Base - 1))

\* floor(Base^n * r / d), most significant limb last, and whether the
\* division is exact, for r < d; q holds the limbs found so far.  A zero
\* remainder leaves only zero limbs to find.
RECURSIVE BDivLoop(_, _, _, _)
BDivPut(r2, d, q, n, c) ==
  BDivLoop(BSub(r2, BMulSmall(d, c)), d, <<c>> \o q, n - 1)

BDivStep(r2, d, q, n) == BDivPut(r2, d, q, n, BDigit(r2, d))

BDivLoop(r, d, q, n) ==
  IF r = <<>> THEN [quo |-> BTrim([j \in 1..n |-> 0] \o q), exact |-> TRUE]
  ELSE IF n = 0 THEN [quo |-> BTrim(q), exact |-> FALSE]
  ELSE BDivStep(BShlLimbs(r, 1), d, q, n)

(***************************************************************************)
(* Dyadic numbers (-1)^sgn * man * 2^exp with man a natural number as      *)
(* above.  XAdd and XMul are exact.  A Python float is such a number with  *)
(* 2^52 <= man < 2^53, or a signed zero (man = <<>>, exp = 0); Round takes *)
(* an exact result to the nearest float, ties to even.  The values of the  *)
(* model stay far from the overflow and subnormal ranges.                  *)
(***************************************************************************)
Precision == 53

Dy(s, m, e) == [sgn |-> s, man |-> m, exp |-> e]

IsZero(x) == x.man = <<>>

FNeg(x) == [x EXCEPT !.sgn = 1 - x.sgn]

FAbs(x) == [x EXCEPT !.sgn = 0]

XMul(x, y) ==
  IF IsZero(x) \/ IsZero(y) THEN Dy((x.sgn + y.sgn) % 2, <<>>, 0)
  ELSE Dy((x.sgn + y.sgn) % 2, BMul(x.man, y.man), x.exp + y.exp)

\* a and b are the significands at the common exponent e, c compares them
XAddCmp(x, y, e, a, b, c) ==
  IF c = 0 THEN Dy(0, <<>>, 0)
  ELSE IF c > 0 THEN Dy(x.sgn, BSub(a, b), e)
  ELSE Dy(y.sgn, BSub(b, a), e)

XAddAligned(x, y, e, a, b) ==
  IF x.sgn = y.sgn THEN Dy(x.sgn, BAdd(a, b), e)
  ELSE XAddCmp(x, y, e, a, b, BCmp(a, b))

XAddAt(x, y, e) ==
  XAddAligned(x, y, e, BShl(x.man, x.exp - e), BShl(y.man, y.exp - e))

XAdd(x, y) ==
  IF IsZero(x) /\ IsZero(y) THEN Dy(IF x.sgn = 1 /\ y.sgn = 1 THEN 1 ELSE 0, <<>>, 0)
  ELSE IF IsZero(x) THEN y
  ELSE IF IsZero(y) THEN x
  ELSE XAddAt(x, y, Min(x.exp, y.exp))

XSub(x, y) == XAdd(x, FNeg(y))

\* exact comparisons of the values
XEq(x, y) == IsZero(XSub(x, y))

IsNegative(x) == ~IsZero(x) /\ x.sgn = 1

XLt(x, y) == IsNegative(XSub(x, y))

XLe(x, y) == ~IsNegative(XSub(y, x))

\* q is man without its sh lowest bits: the result is q or q + 1, as the
\* bits cut off are below, at (then to the even one) or above the half
RoundsUp(man, sh, q) ==
  /\ BBit(man, sh - 1) = 1
  /\ ~BLowZero(man, sh - 1) \/ q[1] % 2 = 1

RoundCarry(x, sh, q1) ==
  IF BBitLen(q1) > Precision
  THEN Dy(x.sgn, BShr(q1, 1), x.exp + sh + 1)
  ELSE Dy(x.sgn, q1, x.exp + sh)

RoundQ(x, sh, q) ==
  RoundCarry(x, sh, IF RoundsUp(x.man, sh, q) THEN BAdd(q, <<1>>) ELSE q)

RoundSh(x, sh) ==
  IF sh <= 0 THEN Dy(x.sgn, BShl(x.man, -sh), x.exp + sh)
  ELSE RoundQ(x, sh, BShr(x.man, sh))

Round(x) ==
  IF IsZero(x) THEN Dy(x.sgn, <<>>, 0)
  ELSE RoundSh(x, BBitLen(x.man) - Precision)

\* Python's float +, -, * and / (y # 0), <, <=, == and int -> float
FAdd(x, y) == Round(XAdd(x, y))

FSub(x, y) == Round(XSub(x, y))

FMul(x, y) == Round(XMul(x, y))

\* x.man and y.man have 53 bits: 2^7 * y.man has its top bit in the top
\* of its fourth limb, and the quotient floor(Base^4 * x.man / y.man) has
\* 60 or 61 bits; a last bit tells whether a remainder is left
FDivSticky(d) == BAdd(BMulSmall(d.quo, 2), IF d.exact THEN <<>> ELSE <<1>>)

FDivScaled(a, b) ==
  IF BCmp(a, b) >= 0 THEN BDivLoop(BSub(a, b), b, <<1>>, 4)
  ELSE BDivLoop(a, b, <<0>>, 4)

FDivMan(a, b) ==
  FDivSticky(FDivScaled(BMulSmall(a, Pow2[7]), BMulSmall(b, Pow2[7])))

FDiv(x, y) ==
  IF IsZero(x) THEN Dy((x.sgn + y.sgn) % 2, <<>>, 0)
  ELSE Round(Dy((x.sgn + y.sgn) % 2, FDivMan(x.man, y.man), x.exp - y.exp - 61))

FLt(x, y) == XLt(x, y)

FLe(x, y) == XLe(x, y)

FEq(x, y) == XEq(x, y)

Float(n) == Round(Dy(IF n < 0 THEN 1 ELSE 0, BFromInt(IF n < 0 THEN -n ELSE n), 0))

\* the float literal n / 10^k, e.g. Lit(1, 1) for 0.1: the float nearest to it
Lit(n, k) == FDiv(Float(n), Float(10^k))

\* Python's int(x): truncation towards zero
Magnitude(x) ==
  IF x.exp >= 0 THEN BToInt(BShl(x.man, x.exp)) ELSE BToInt(BShr(x.man, -x.exp))

int(x) ==
  IF IsZero(x) THEN 0
  ELSE IF x.sgn = 1 THEN -Magnitude(x) ELSE Magnitude(x)

(***************************************************************************)
(* The script's state: its module-level names.  pc is the position of the  *)
(* interpreter: "setup" before line 62, "loop" in the for statement of     *)
(* lines 90-102, "done" after it (the plot of lines 108-117 only reads),   *)
(* "ZeroDivisionError" when line 62 raised.  iter is the number of values  *)
(* range(N) has yielded so far.  Before line 62 runs, N and the names of   *)
(* lines 84-88 and 91-94 are not assigned: the float names hold Unbound,   *)
(* N holds 0 and the lists are empty until then.                           *)
(***************************************************************************)
VARIABLES L_input, CB, t_descarga, V1, V2, D1B, D12, k1, k2, Tmax, dt, N,
          C1, C2, t, t_list, C1_list, C2_list,
          k1_1, k2_1, k1_2, k2_2, k1_3, k2_3, k1_4, k2_4,
          iter, pc

params == <<L_input, CB, t_descarga, V1, V2, D1B, D12, k1, k2, Tmax, dt>>

stages == <<k1_1, k2_1, k1_2, k2_2, k1_3, k2_3, k1_4, k2_4>>

vars == <<params, N, C1, C2, t, t_list, C1_list, C2_list, stages, iter, pc>>

\* a float name no statement has assigned yet; no statement reads one
Unbound == [unbound |-> TRUE]

\* lines 44-47 and 50-53
A1B == Float(25)

L1B == Float(80)

E1B == Lit(6, 1)

A12 == Float(18)

L12 == Float(120)

E12 == Lit(4, 1)

D1B_script == FMul(FDiv(FMul(E1B, A1B), L1B), Float(86400))

D12_script == FMul(FDiv(FMul(E12, A12), L12), Float(86400))

(***************************************************************************)
(* The values the runs are checked for.  The sliders of lines 29 and 31    *)
(* give L_input and CB; the other names are assignments of the script,     *)
(* which the properties of derivadas and of the loop quantify over: next   *)
(* to the script's rates, a conservative system (no decay, no exchange     *)
(* with the bay); next to the state (0, 0), a loaded reservoir 1; steps of *)
(* 0.1 (not a binary fraction) and 0.5 (one); horizons up to MaxTmax days, *)
(* and the script's own 30 days for its own values.                        *)
(***************************************************************************)
MaxTmax == 2

Loads == {Float(0), Float(1000000)}

Boundaries == {Float(0), Float(1)}

Rates == {[D1B |-> D1B_script, k1 |-> Lit(2, 1), k2 |-> Lit(1, 1)],
          [D1B |-> Float(0), k1 |-> Float(0), k2 |-> Float(0)]}

InitialStates == {<<Float(0), Float(0)>>, <<Float(1), Float(0)>>}

Steps == {Lit(1, 1), Lit(5, 1)}

Fixed ==
  /\ t_descarga = Float(1)
  /\ V1 = Float(100000)
  /\ V2 = Float(200000)
  /\ D12 = D12_script
  /\ N = 0 /\ t = Unbound
  /\ t_list = <<>> /\ C1_list = <<>> /\ C2_list = <<>>
  /\ k1_1 = Unbound /\ k2_1 = Unbound /\ k1_2 = Unbound /\ k2_2 = Unbound
  /\ k1_3 = Unbound /\ k2_3 = Unbound /\ k1_4 = Unbound /\ k2_4 = Unbound
  /\ iter = 0
  /\ pc = "setup"

\* lines 29-61 and 65-66 as written, with the sliders at their defaults
ScriptRun ==
  /\ L_input = Float(1000000) /\ CB = Float(1)
  /\ D1B = D1B_script /\ k1 = Lit(2, 1) /\ k2 = Lit(1, 1)
  /\ Tmax = Float(30) /\ dt = Lit(1, 1)
  /\ C1 = Float(0) /\ C2 = Float(0)

Variations ==
  /\ L_input \in Loads /\ CB \in Boundaries
  /\ \E r \in Rates : D1B = r.D1B /\ k1 = r.k1 /\ k2 = r.k2
  /\ \E T \in 1..MaxTmax : Tmax = Float(T)
  /\ dt \in Steps
  /\ \E c \in InitialStates : C1 = c[1] /\ C2 = c[2]

Init == Fixed /\ (ScriptRun \/ Variations)

\* lines 60 and 61 with values the script does not test for: a horizon or
\* a step that is zero or negative
Horizons == {Float(-1), Float(0), Float(1)}

StepsOfAnySign == {FNeg(Lit(5, 1)), Float(0), Lit(5, 1)}

IsPositive(x) == ~IsZero(x) /\ x.sgn = 0

Degenerate ==
  /\ L_input = Float(1000000) /\ CB = Float(1)
  /\ D1B = D1B_script /\ k1 = Lit(2, 1) /\ k2 = Lit(1, 1)
  /\ Tmax \in Horizons /\ dt \in StepsOfAnySign
  /\ ~(IsPositive(Tmax) /\ IsPositive(dt))
  /\ C1 = Float(0) /\ C2 = Float(0)

InitAnyConfig == Fixed /\ (ScriptRun \/ Variations \/ Degenerate)

\* the load still on at t = t_descarga
derivadasInclusive(c1, c2, tt) ==
  LET L      == IF FLe(tt, t_descarga) THEN L_input ELSE Float(0)
      dC1_dt == FSub(FMul(FDiv(Float(1), V1),
                          FAdd(FAdd(FMul(D1B, FSub(CB, c1)),
                                    FMul(D12, FSub(c2, c1))), L)),
                     FMul(k1, c1))
      dC2_dt == FSub(FMul(FDiv(Float(1), V2), FMul(D12, FSub(c1, c2))),
                     FMul(k2, c2))
  IN  <<dC1_dt, dC2_dt>>

\* a decay of reservoir 1 that does not depend on its concentration
derivadasConstantDecay(c1, c2, tt) ==
  LET L      == IF FLt(tt, t_descarga) THEN L_input ELSE Float(0)
      dC1_dt == FSub(FMul(FDiv(Float(1), V1),
                          FAdd(FAdd(FMul(D1B, FSub(CB, c1)),
                                    FMul(D12, FSub(c2, c1))), L)),
                     k1)
      dC2_dt == FSub(FMul(FDiv(Float(1), V2), FMul(D12, FSub(c1, c2))),
                     FMul(k2, c2))
  IN  <<dC1_dt, dC2_dt>>

\* the exchange of reservoir 2 divided by the volume of reservoir 1
derivadasSameVolume(c1, c2, tt) ==
  LET L      == IF FLt(tt, t_descarga) THEN L_input ELSE Float(0)
      dC1_dt == FSub(FMul(FDiv(Float(1), V1),
                          FAdd(FAdd(FMul(D1B, FSub(CB, c1)),
                                    FMul(D12, FSub(c2, c1))), L)),
                     FMul(k1, c1))
      dC2_dt == FSub(FMul(FDiv(Float(1), V1), FMul(D12, FSub(c1, c2))),
                     FMul(k2, c2))
  IN  <<dC1_dt, dC2_dt>>

\* lines 72-78
derivadas(c1, c2, tt) ==
  LET L      == IF FLt(tt, t_descarga) THEN L_input ELSE Float(0)
      dC1_dt == FSub(FMul(FDiv(Float(1), V1),
                          FAdd(FAdd(FMul(D1B, FSub(CB, c1)),
                                    FMul(D12, FSub(c2, c1))), L)),
                     FMul(k1, c1))
      dC2_dt == FSub(FMul(FDiv(Float(1), V2), FMul(D12, FSub(c1, c2))),
                     FMul(k2, c2))
  IN  <<dC1_dt, dC2_dt>>

\* lines 96 and 97: c += (dt/6)*(ka + 2*kb + 2*kc + kd)
Advance(c, ka, kb, kc, kd) ==
  FAdd(c, FMul(FDiv(dt, Float(6)),
               FAdd(FAdd(FAdd(ka, FMul(Float(2), kb)), FMul(Float(2), kc)), kd)))

\* the new element put in front
appendFront(list, x) == <<x>> \o list

\* lines 100-102: list.append(x)
append(list, x) == Append(list, x)

\* a loop that runs while the accumulated time is below the horizon
LoopCondTime == FLt(t, Tmax)

\* range(N + 1)
LoopCondInclusive == iter <= N

\* line 90: range(N) has another value
LoopCond == iter < N

\* a first slope stored under the name of the decay rate
FrameClobber ==
  /\ UNCHANGED <<L_input, CB, t_descarga, V1, V2, D1B, D12, k2, Tmax, dt>>
  /\ k1' = IF pc = "loop" /\ iter' = iter + 1 THEN k1_1' ELSE k1

\* no statement of lines 62-102 assigns a parameter
Frame == UNCHANGED params

\* lines 62 and 84-88
Setup ==
  /\ pc = "setup"
  /\ IF IsZero(dt)
     THEN /\ pc' = "ZeroDivisionError"
          /\ UNCHANGED <<N, t, t_list, C1_list, C2_list>>
     ELSE /\ N' = int(FDiv(Tmax, dt))
          /\ t_list' = <<Float(0)>>
          /\ C1_list' = <<C1>>
          /\ C2_list' = <<C2>>
          /\ t' = Float(0)
          /\ pc' = "loop"
  /\ UNCHANGED <<C1, C2, stages, iter>>
  /\ Frame

\* lines 92-94: the point at which the next pair of slopes is taken, the
\* state moved by the step h
Probe(c1, c2, tt, h) == <<FAdd(c1, h[1]), FAdd(c2, h[2]), FAdd(tt, h[3])>>

\* dt*k/2 of lines 92 and 93 and dt*k of line 94, with the time offsets
HalfStep(s) ==
  <<FDiv(FMul(dt, s[1]), Float(2)), FDiv(FMul(dt, s[2]), Float(2)),
    FDiv(dt, Float(2))>>

FullStep(s) == <<FMul(dt, s[1]), FMul(dt, s[2]), dt>>

\* C1 assigned before the slopes of C2 are taken: the first slope of C2
\* read from the new C1
StepInPlace ==
  /\ pc = "loop"
  /\ LoopCond
  /\ \E s1 \in {derivadas(C1, C2, t)} :
     \E p2 \in {Probe(C1, C2, t, HalfStep(s1))} :
     \E s2 \in {derivadas(p2[1], p2[2], p2[3])} :
     \E p3 \in {Probe(C1, C2, t, HalfStep(s2))} :
     \E s3 \in {derivadas(p3[1], p3[2], p3[3])} :
     \E p4 \in {Probe(C1, C2, t, FullStep(s3))} :
     \E s4 \in {derivadas(p4[1], p4[2], p4[3])} :
     \E c \in {Advance(C1, s1[1], s2[1], s3[1], s4[1])} :
     \E u1 \in {derivadas(c, C2, t)} :
        /\ k1_1' = s1[1] /\ k2_1' = u1[2]
        /\ k1_2' = s2[1] /\ k2_2' = s2[2]
        /\ k1_3' = s3[1] /\ k2_3' = s3[2]
        /\ k1_4' = s4[1] /\ k2_4' = s4[2]
        /\ C1' = c
        /\ C2' = Advance(C2, u1[2], s2[2], s3[2], s4[2])
  /\ t' = FAdd(t, dt)
  /\ t_list' = append(t_list, t')
  /\ C1_list' = append(C1_list, C1')
  /\ C2_list' = append(C2_list, C2')
  /\ iter' = iter + 1
  /\ UNCHANGED <<N, pc>>
  /\ Frame

\* lines 90-102: one iteration of the for statement; s1..s4 are the pairs
\* the four calls of derivadas return, p2..p4 the arguments of the last three
Step ==
  /\ pc = "loop"
  /\ LoopCond
  /\ \E s1 \in {derivadas(C1, C2, t)} :
     \E p2 \in {Probe(C1, C2, t, HalfStep(s1))} :
     \E s2 \in {derivadas(p2[1], p2[2], p2[3])} :
     \E p3 \in {Probe(C1, C2, t, HalfStep(s2))} :
     \E s3 \in {derivadas(p3[1], p3[2], p3[3])} :
     \E p4 \in {Probe(C1, C2, t, FullStep(s3))} :
     \E s4 \in {derivadas(p4[1], p4[2], p4[3])} :
        /\ k1_1' = s1[1] /\ k2_1' = s1[2]
        /\ k1_2' = s2[1] /\ k2_2' = s2[2]
        /\ k1_3' = s3[1] /\ k2_3' = s3[2]
        /\ k1_4' = s4[1] /\ k2_4' = s4[2]
        /\ C1' = Advance(C1, s1[1], s2[1], s3[1], s4[1])
        /\ C2' = Advance(C2, s1[2], s2[2], s3[2], s4[2])
  /\ t' = FAdd(t, dt)
  /\ t_list' = append(t_list, t')
  /\ C1_list' = append(C1_list, C1')
  /\ C2_list' = append(C2_list, C2')
  /\ iter' = iter + 1
  /\ UNCHANGED <<N, pc>>
  /\ Frame

\* line 90 when range(N) is exhausted: the script goes on to the plot
Finish ==
  /\ pc = "loop"
  /\ ~LoopCond
  /\ pc' = "done"
  /\ UNCHANGED <<N, C1, C2, t, t_list, C1_list, C2_list, stages, iter>>
  /\ Frame

Next == Setup \/ Step \/ Finish

Spec == Init /\ [][Next]_vars

\* The interpreter runs the script to its end: while a statement is left
\* to run it runs one, which moves pc or counts an iteration.
Running == pc \in {"setup", "loop"}

Progress ==
  /\ Running
  /\ pc' \in {"loop", "done", "ZeroDivisionError"}
  /\ iter' \in {iter, iter + 1}

FairSpec == Spec /\ WF_<<pc, iter>>(Progress)

SpecAnyConfig == InitAnyConfig /\ [][Next]_vars

(***************************************************************************)
(* The properties.                                                         *)
(***************************************************************************)
Last(list) == list[Len(list)]

Recording == pc \in {"loop", "done"}

\* C1: when the loop has finished, the three lists hold N + 1 samples each,
\* N being int(Tmax / dt), and the first sample is t = 0 with the C1 and C2
\* the run started from; the script's own values (Tmax = 30, dt = 0.1)
\* give 301 samples.
C1_SamplesAfterLoop ==
  \A c \in InitialStates :
     (C1 = c[1] /\ C2 = c[2]) =>
        [](pc = "done" =>
             /\ N = int(FDiv(Tmax, dt))
             /\ Len(t_list) = N + 1
             /\ Len(C1_list) = N + 1
             /\ Len(C2_list) = N + 1
             /\ t_list[1] = Float(0)
             /\ C1_list[1] = c[1]
             /\ C2_list[1] = c[2]
             /\ (Tmax = Float(30) /\ dt = Lit(1, 1) => Len(t_list) = 301))

C1_ScriptRunDone ==
  /\ pc = "done"
  /\ Tmax = Float(30) /\ dt = Lit(1, 1)
  /\ Len(t_list) = 301
  /\ C1_list[1] # C1

\* C4: the loop ends, and when it has ended it has made exactly N steps,
\* whatever the accumulated time t is then.
C4_TerminatesAfterNSteps ==
  /\ <>(pc = "done")
  /\ [](pc = "done" => iter = N /\ Len(t_list) = N + 1)

\* the loop has ended after its N steps with t still below Tmax
C4_DoneBeforeTmax ==
  /\ pc = "done"
  /\ N > 0 /\ iter = N
  /\ FLt(t, Tmax)

\* the load the claims give a call of derivadas at time tt, and the two
\* rates of change with it
SourceTerm(tt) == IF FLe(t_descarga, tt) THEN Float(0) ELSE L_input

Reservoir1(c1, c2, L) ==
  FSub(FMul(FDiv(Float(1), V1),
            FAdd(FAdd(FMul(D1B, FSub(CB, c1)), FMul(D12, FSub(c2, c1))), L)),
       FMul(k1, c1))

Reservoir2(c1, c2) ==
  FSub(FMul(FDiv(Float(1), V2), FMul(D12, FSub(c1, c2))), FMul(k2, c2))

SlopesAt(p) ==
  <<Reservoir1(p[1], p[2], SourceTerm(p[3])), Reservoir2(p[1], p[2])>>

\* C5: each of the four calls of derivadas in a step (at t, twice at
\* t + dt/2 and at t + dt) returns dC1/dt with the load L_input added inside
\* the factor 1/V1 when its time is below t_descarga and with 0 added when
\* its time is t_descarga or later, and dC2/dt without any load.
C5_SourceTerm ==
  [][pc = "loop" /\ iter' = iter + 1 =>
       \A p2 \in {Probe(C1, C2, t, HalfStep(<<k1_1', k2_1'>>))} :
       \A p3 \in {Probe(C1, C2, t, HalfStep(<<k1_2', k2_2'>>))} :
       \A p4 \in {Probe(C1, C2, t, FullStep(<<k1_3', k2_3'>>))} :
          /\ <<k1_1', k2_1'>> = SlopesAt(<<C1, C2, t>>)
          /\ <<k1_2', k2_2'>> = SlopesAt(p2)
          /\ <<k1_3', k2_3'>> = SlopesAt(p3)
          /\ <<k1_4', k2_4'>> = SlopesAt(p4)]_vars

\* a step has ended at t = t_descarga exactly: its last call of derivadas
\* was made at t_descarga, without the load its first call had
C5_StepEndsAtCutoff ==
  /\ Recording
  /\ iter > 0
  /\ ~IsZero(L_input)
  /\ t = t_descarga
  /\ k1_4 # k1_1

\* C6: with L_input = 0, CB = 0 and the initial state (0, 0), every sample
\* recorded has C1 = 0 and C2 = 0.
C6_TrivialEquilibrium ==
  (/\ Recording
   /\ IsZero(L_input) /\ IsZero(CB)
   /\ IsZero(C1_list[1]) /\ IsZero(C2_list[1]))
  => \A j \in 1..Len(C1_list) : IsZero(C1_list[j]) /\ IsZero(C2_list[j])

C6_ZeroRunDone ==
  /\ pc = "done"
  /\ IsZero(L_input) /\ IsZero(CB)
  /\ ~IsZero(k1) /\ ~IsZero(D1B)
  /\ Len(C1_list) > 10
  /\ \A j \in 1..Len(C1_list) : IsZero(C1_list[j]) /\ IsZero(C2_list[j])

Conservative == IsZero(k1) /\ IsZero(k2) /\ IsZero(D1B) /\ IsZero(L_input)

\* V1*C1 + V2*C2 without rounding
Mass(c1, c2) == XAdd(XMul(V1, c1), XMul(V2, c2))


\* V1*C1 + V2*C2 as Python computes it
FloatMass(c1, c2) == FAdd(FMul(V1, c1), FMul(V2, c2))

\* C7, as claimed: with k1 = k2 = 0, D1B = 0 and L_input = 0, the mass
\* V1*C1 + V2*C2 of every sample is the mass of the first sample.
C7_MassExactlyConstant ==
  Recording /\ Conservative =>
     FEq(FloatMass(Last(C1_list), Last(C2_list)),
         FloatMass(C1_list[1], C2_list[1]))

\* C7, amended: under the same conditions the mass of every sample, taken
\* without rounding, differs from the mass of the first sample by at most
\* 1e-6 of it.
C7_MassWithinTolerance ==
  Recording /\ Conservative =>
     XLe(XMul(Float(1000000),
              FAbs(XSub(Mass(Last(C1_list), Last(C2_list)),
                        Mass(C1_list[1], C2_list[1])))),
         FAbs(Mass(C1_list[1], C2_list[1])))

\* a conservative run has moved mass into reservoir 2, and the total is
\* not the initial one to the last bit
C7_ExchangeDone ==
  /\ Recording
  /\ iter > 0
  /\ Conservative
  /\ ~IsZero(C1_list[1])
  /\ ~IsZero(Last(C2_list))
  /\ ~FEq(FloatMass(Last(C1_list), Last(C2_list)),
          FloatMass(C1_list[1], C2_list[1]))

\* list2 is list with one element more at its end
Extended(list, list2) ==
  /\ Len(list2) = Len(list) + 1
  /\ SubSeq(list2, 1, Len(list)) = list

\* C8: a step of the loop leaves each list as it is or puts one element at
\* its end: the elements recorded keep their values and their indices.
C8_AppendOnly ==
  [][pc = "loop" =>
       IF iter' = iter + 1
       THEN /\ Extended(t_list, t_list')
            /\ Extended(C1_list, C1_list')
            /\ Extended(C2_list, C2_list')
       ELSE UNCHANGED <<t_list, C1_list, C2_list>>]_vars

C8_ThreeSamples ==
  /\ Recording
  /\ Len(t_list) >= 3
  /\ t_list[2] # t_list[3]
  /\ C1_list[2] # C1_list[3]

\* C9: no step changes V1, V2, D1B, D12, k1, k2, CB, L_input, t_descarga,
\* Tmax or dt, nor N once line 62 has set it; the slopes k1_1..k2_4 a step
\* stores are other names than k1 and k2.
C9_ParametersFixed ==
  [][/\ UNCHANGED params
     /\ pc # "setup" => N' = N]_vars

\* a step has stored a first slope that differs from the decay rate k1
C9_StageStored ==
  /\ Recording
  /\ iter > 0
  /\ k1_1 # k1
  /\ ~IsZero(k1_1)

\* C10: a step starts from the last sample recorded; its eight slopes are
\* those of derivadas at the state before the step and at the three points
\* reached from that state, the new C1 and C2 are both advanced from the
\* state before the step with these slopes, and the sample it records is
\* the new (t, C1, C2).
C10_StepFromPreState ==
  [][pc = "loop" /\ iter' = iter + 1 =>
       \A p2 \in {Probe(C1, C2, t, HalfStep(<<k1_1', k2_1'>>))} :
       \A p3 \in {Probe(C1, C2, t, HalfStep(<<k1_2', k2_2'>>))} :
       \A p4 \in {Probe(C1, C2, t, FullStep(<<k1_3', k2_3'>>))} :
          /\ <<t, C1, C2>> = <<Last(t_list), Last(C1_list), Last(C2_list)>>
          /\ <<k1_1', k2_1'>> = derivadas(C1, C2, t)
          /\ <<k1_2', k2_2'>> = derivadas(p2[1], p2[2], p2[3])
          /\ <<k1_3', k2_3'>> = derivadas(p3[1], p3[2], p3[3])
          /\ <<k1_4', k2_4'>> = derivadas(p4[1], p4[2], p4[3])
          /\ C1' = Advance(C1, k1_1', k1_2', k1_3', k1_4')
          /\ C2' = Advance(C2, k2_1', k2_2', k2_3', k2_4')
          /\ t' = FAdd(t, dt)
          /\ <<Last(t_list'), Last(C1_list'), Last(C2_list')>> = <<t', C1', C2'>>]_vars

\* two steps made, with both reservoirs changing
C10_TwoSteps ==
  /\ Recording
  /\ iter >= 2
  /\ ~IsZero(k1_1) /\ ~IsZero(k2_1)
  /\ C1 # C1_list[Len(C1_list) - 1]
  /\ C2 # C2_list[Len(C2_list) - 1]

\* C2, as claimed: with dt <= 0 or Tmax <= 0 the script stops with an error
\* before its loop: it never reaches the loop, nor the plot after it.
C2_InvalidConfigurationRejected ==
  ~(IsPositive(dt) /\ IsPositive(Tmax)) => pc \notin {"loop", "done"}

\* C3, as claimed: the times recorded increase, each is the one before plus
\* dt and sample j (from 0) is j * dt, the last one being Tmax.
C3_TimesOnGrid ==
  Recording =>
     /\ Len(t_list) > 1 =>
           /\ FLt(t_list[Len(t_list) - 1], Last(t_list))
           /\ FEq(FSub(Last(t_list), t_list[Len(t_list) - 1]), dt)
     /\ FEq(Last(t_list), FMul(Float(Len(t_list) - 1), dt))
     /\ pc = "done" => FEq(Last(t_list), Tmax)
====
